---- MODULE Spec2Model ----
(***************************************************************************)
(* CompoundPublisher of sick_safevisionary_driver                          *)
(* (src/src/compound_publisher.cpp).                                       *)
(*                                                                         *)
(* publish(header, frame_data) asks each of the ten publishers for its     *)
(* subscriber count and, when it is positive, runs the matching transcode  *)
(* routine, which builds one message and hands it to the transport.        *)
(*                                                                         *)
(* A call of publish is one action.  Its inputs are the header, the frame  *)
(* and, per channel, the count getNumSubscribers() answers in that call.   *)
(* The state keeps what the last call did: the arguments, the counts read, *)
(* the routines invoked, the messages handed to each publisher and how the *)
(* call ended.                                                             *)
(***************************************************************************)
EXTENDS Integers, Sequences, FiniteSets, TLC

VARIABLES
    status,        \* "constructed" | "returned" | "threw" | "crashed"
    header,        \* header argument of the last publish call
    frame,         \* frame_data argument of the last publish call
    subscribers,   \* per channel, the count getNumSubscribers() answered in the last call
    invoked,       \* channels whose transcode routine the last call entered
    published,     \* per channel, the messages the last call handed to its publisher
    cloudBuf,      \* cloud_msg->data of the last call: its bytes and the memcpy destinations
    copied         \* per image channel, the samples the last call's memcpy transferred

vars == <<status, header, frame, subscribers, invoked, published, cloudBuf, copied>>

-----------------------------------------------------------------------------
(* Bounds of the model *)

MaxHeight == 2
MaxWidth == 2
MaxLen == 2

-----------------------------------------------------------------------------
(* Sizes of the C++ types the packing code takes with sizeof *)

SizeofFloat == 4
SizeofUint16 == 2
SizeofPointXYZ == 12

-----------------------------------------------------------------------------
(* The ten publishers, in the order publish() queries them *)

Channels ==
    <<"camera_info", "points", "depth", "intensity", "state",
      "imu_data", "device_status", "camera_io", "region_of_interest", "fields">>

ChannelSet == {Channels[i] : i \in 1..Len(Channels)}

\* The channels published through image_transport.
ImageChannels == {"depth", "intensity", "state"}

ChannelIndex(ch) == CHOOSE i \in 1..Len(Channels) : Channels[i] = ch

NoMessages == [ch \in ChannelSet |-> <<>>]

-----------------------------------------------------------------------------
(* Byte-level helpers *)

\* The n bytes of the unsigned value v in the host's (little-endian) order,
\* as memcpy from &v reads them.
RECURSIVE Bytes(_, _)
Bytes(v, n) == IF n = 0 THEN <<>> ELSE <<v % 256>> \o Bytes(v \div 256, n - 1)

\* struct PointXYZ {float x; float y; float z;}: the 12 bytes memcpy reads
\* from &*point_it.  A float is modelled by its 32-bit pattern.
PointBytes(p) ==
    Bytes(p.x, SizeofFloat) \o Bytes(p.y, SizeofFloat) \o Bytes(p.z, SizeofFloat)

\* memcpy(&buf[off], src, Len(src)) seen from buf: the bytes that fall inside
\* buf are replaced, the bytes written past its end land outside of it.
memcpy(buf, off, src) ==
    [k \in 1..Len(buf) |->
        IF (k - 1 >= off) /\ (k - 1 < off + Len(src)) THEN src[k - off] ELSE buf[k]]

\* What a transcode routine did: how control left it and what it published.
\*   "return" : returned to publish()
\*   "throw"  : an exception left the routine
\*   "crash"  : the process was terminated inside the routine
Result(outcome, msgs) == [outcome |-> outcome, msgs |-> msgs]

-----------------------------------------------------------------------------
(* publishCameraInfo *)

\* camera_info.D: std::vector<double>(5, 0), then the five assignments.
\* Sequence position i + 1 is D[i].
CameraInfoD(cam) ==
    [<<0, 0, 0, 0, 0>> EXCEPT ![1] = cam.k1, ![2] = cam.k2, ![3] = cam.p1,
                              ![4] = cam.p2, ![5] = cam.k3]

\* CameraInfoK with the principal point and the focal length of the second
\* row exchanged (K[2] and K[4]).
CameraInfoKSwapped(cam) ==
    [[i \in 0..8 |-> 0] EXCEPT ![0] = cam.fx, ![4] = cam.cx, ![2] = cam.fy,
                               ![5] = cam.cy, ![8] = 1]

\* camera_info.K: the message constructor zero-fills the array of 9, then
\* the five assignments.
CameraInfoK(cam) ==
    [[i \in 0..8 |-> 0] EXCEPT ![0] = cam.fx, ![2] = cam.cx, ![4] = cam.fy,
                               ![5] = cam.cy, ![8] = 1]

publishCameraInfo(hdr, frame_data) ==
    Result("return",
           << [header |-> hdr,
               height |-> frame_data.height,
               width  |-> frame_data.width,
               D      |-> CameraInfoD(frame_data.cam),
               K      |-> CameraInfoK(frame_data.cam)] >>)

-----------------------------------------------------------------------------
(* publishPointCloud *)

\* fields[0..2]: offset starts at 0 and grows by sizeof(float) per field.
PointFieldOffset(i) == i * SizeofFloat

\* fields[3].offset: the offset after the three float fields.
IntensityOffset == 3 * SizeofFloat

\* point_step: the offset after the intensity field.
PointStep == IntensityOffset + SizeofUint16

CloudFields ==
    << [name |-> "x", offset |-> PointFieldOffset(0), datatype |-> "FLOAT32", count |-> 1],
       [name |-> "y", offset |-> PointFieldOffset(1), datatype |-> "FLOAT32", count |-> 1],
       [name |-> "z", offset |-> PointFieldOffset(2), datatype |-> "FLOAT32", count |-> 1],
       [name |-> "intensity", offset |-> IntensityOffset, datatype |-> "UINT16", count |-> 1] >>

RowStep(frame_data) == PointStep * frame_data.width

\* data.resize(height * row_step): value-initialised bytes.
CloudDataSize(frame_data) == frame_data.height * RowStep(frame_data)

\* cloud_msg->data while it is filled: the bytes, and the destinations
\* <<offset, length>> of the memcpy calls made on it.
NewBuffer(size) == [data |-> [k \in 1..size |-> 0], writes |-> {}]

Store(buf, off, src) ==
    [data |-> memcpy(buf.data, off, src), writes |-> buf.writes \cup {<<off, Len(src)>>}]

\* Whether a memcpy destination lies inside the buffer.
InBuffer(w, buf) == w[1] + w[2] <= Len(buf.data)

\* PackLoop with the points laid out sizeof(PointXYZ) bytes apart instead of
\* point_step bytes apart.
RECURSIVE PackLoopPointStride(_, _, _, _)
PackLoopPointStride(buf, i, point_vec, intensityMap) ==
    IF i >= Len(point_vec)
    THEN buf
    ELSE PackLoopPointStride(
            Store(Store(buf, i * SizeofPointXYZ + PointFieldOffset(0),
                        SubSeq(PointBytes(point_vec[i + 1]), 1, SizeofPointXYZ)),
                  i * SizeofPointXYZ + IntensityOffset,
                  Bytes(intensityMap[i + 1], SizeofUint16)),
            i + 1, point_vec, intensityMap)

\* The packing loop from index i on: two memcpy per point, the first of
\* sizeof(PointXYZ) bytes, the second of sizeof(uint16_t) bytes.
RECURSIVE PackLoop(_, _, _, _)
PackLoop(buf, i, point_vec, intensityMap) ==
    IF i >= Len(point_vec)
    THEN buf
    ELSE PackLoop(
            Store(Store(buf, i * PointStep + PointFieldOffset(0),
                        SubSeq(PointBytes(point_vec[i + 1]), 1, SizeofPointXYZ)),
                  i * PointStep + IntensityOffset,
                  Bytes(intensityMap[i + 1], SizeofUint16)),
            i + 1, point_vec, intensityMap)

NoCloudBuffer == NewBuffer(0)

\* frame_data.generate is what generatePointCloud / transformPointCloud do on
\* this frame ("ok" or "throw"); frame_data.points is the vector they yield.
\* overflow is what the build makes of a write past the end of the buffer:
\* "silent" (the memory after the buffer is overwritten and the run goes on)
\* or "abort" (the process is terminated).
publishPointCloud(hdr, frame_data, overflow) ==
    LET empty == NewBuffer(CloudDataSize(frame_data))
        full  == PackLoop(empty, 0, frame_data.points, frame_data.intensityMap)
    IN  IF frame_data.generate = "throw"
        THEN [outcome |-> "throw", msgs |-> <<>>, buf |-> empty]
        ELSE IF Len(frame_data.intensityMap) # Len(frame_data.points)
        THEN [outcome |-> "return", msgs |-> <<>>, buf |-> empty]
        ELSE IF (\E w \in full.writes : ~InBuffer(w, full)) /\ overflow = "abort"
        THEN [outcome |-> "crash", msgs |-> <<>>, buf |-> full]
        ELSE [outcome |-> "return",
              msgs    |-> << [header       |-> hdr,
                              height       |-> frame_data.height,
                              width        |-> frame_data.width,
                              is_dense     |-> FALSE,
                              is_bigendian |-> FALSE,
                              fields       |-> CloudFields,
                              point_step   |-> PointStep,
                              row_step     |-> RowStep(frame_data),
                              data         |-> full.data] >>,
              buf     |-> full]

-----------------------------------------------------------------------------
(* publishDepthImage, publishIntensityImage, publishStateMap *)

\* cv::Mat(height, width, type) allocates height * width samples and does not
\* initialise them; memcpy copies vec.size() samples into it; toImageMsg
\* copies the height * width samples into the message.  A sample stands for
\* its 2 (or 1) bytes.  fill is the value the samples the memcpy did not
\* reach happen to hold (one value for all of them).  When vec is longer
\* than the image the memcpy writes past the allocation (overflow as in
\* publishPointCloud).
VecToImage(hdr, frame_data, vec, encoding, fill, overflow) ==
    LET size == frame_data.height * frame_data.width
    IN  IF Len(vec) > size /\ overflow = "abort"
        THEN [outcome |-> "crash", msgs |-> <<>>, copied |-> Len(vec)]
        ELSE [outcome |-> "return",
              msgs    |-> << [header   |-> hdr,
                              height   |-> frame_data.height,
                              width    |-> frame_data.width,
                              encoding |-> encoding,
                              data     |-> [i \in 1..size |->
                                              IF i <= Len(vec) THEN vec[i] ELSE fill]] >>,
              copied  |-> Len(vec)]

\* Vec16ToImage building the image message with a default-constructed header.
Vec16ToImageDefaultHeader(hdr, frame_data, vec, fill, overflow) ==
    VecToImage([seq |-> 0, stamp |-> 0, frame_id |-> ""], frame_data, vec, "16UC1",
               fill, overflow)

Vec16ToImage(hdr, frame_data, vec, fill, overflow) ==
    VecToImage(hdr, frame_data, vec, "16UC1", fill, overflow)

Vec8ToImage(hdr, frame_data, vec, fill, overflow) ==
    VecToImage(hdr, frame_data, vec, "8UC1", fill, overflow)

publishDepthImage(hdr, frame_data, fill, overflow) ==
    Vec16ToImage(hdr, frame_data, frame_data.distanceMap, fill, overflow)

publishIntensityImage(hdr, frame_data, fill, overflow) ==
    Vec16ToImage(hdr, frame_data, frame_data.intensityMap, fill, overflow)

publishStateMap(hdr, frame_data, fill, overflow) ==
    Vec8ToImage(hdr, frame_data, frame_data.stateMap, fill, overflow)

\* The samples of an image of this frame that a copy of vec leaves unwritten.
Unwritten(frame_data, vec) == (Len(vec) + 1)..(frame_data.height * frame_data.width)

-----------------------------------------------------------------------------
(* publishIMUData, publishDeviceStatus, publishIOs *)

publishIMUData(hdr, frame_data) ==
    LET imu == frame_data.imu
    IN  Result("return",
               << [header              |-> hdr,
                   angular_velocity    |-> [x |-> imu.angularVelocity.X,
                                            y |-> imu.angularVelocity.Y,
                                            z |-> imu.angularVelocity.Z],
                   linear_acceleration |-> [x |-> imu.acceleration.X,
                                            y |-> imu.acceleration.Y,
                                            z |-> imu.acceleration.Z],
                   orientation         |-> [x |-> imu.orientation.X,
                                            y |-> imu.orientation.Y,
                                            z |-> imu.orientation.Z,
                                            w |-> imu.orientation.W]] >>)

publishDeviceStatus(hdr, frame_data) ==
    LET data == frame_data.deviceStatusData
    IN  Result("return",
               << [header |-> hdr,
                   status |-> frame_data.deviceStatus % 256,
                   general_status |->
                       [application_error     |-> data.generalStatus.applicationError,
                        contamination_error   |-> data.generalStatus.contaminationError,
                        contamination_warning |-> data.generalStatus.contaminationWarning,
                        dead_zone_detection   |-> data.generalStatus.deadZoneDetection,
                        device_error          |-> data.generalStatus.deviceError,
                        temperature_warning   |-> data.generalStatus.temperatureWarning,
                        run_mode_active       |-> data.generalStatus.runModeActive,
                        wait_for_cluster      |-> data.generalStatus.waitForCluster,
                        wait_for_input        |-> data.generalStatus.waitForInput],
                   COP_non_safety_related |-> data.COPNonSaftyRelated,
                   COP_safety_related     |-> data.COPSaftyRelated,
                   COP_reset_required     |-> data.COPResetRequired,
                   active_monitoring_case |->
                       [monitoring_case_1 |-> data.activeMonitoringCase.currentCaseNumberMonitoringCase1,
                        monitoring_case_2 |-> data.activeMonitoringCase.currentCaseNumberMonitoringCase2,
                        monitoring_case_3 |-> data.activeMonitoringCase.currentCaseNumberMonitoringCase3,
                        monitoring_case_4 |-> data.activeMonitoringCase.currentCaseNumberMonitoringCase4],
                   contamination_level |-> data.contaminationLevel] >>)

publishIOs(hdr, frame_data) ==
    LET io == frame_data.localIOData
    IN  Result("return",
               << [header |-> hdr,
                   configured |->
                       [pin_5 |-> io.universalIOConfigured.configuredUniIOPin5,
                        pin_6 |-> io.universalIOConfigured.configuredUniIOPin6,
                        pin_7 |-> io.universalIOConfigured.configuredUniIOPin7,
                        pin_8 |-> io.universalIOConfigured.configuredUniIOPin8],
                   direction |->
                       [pin_5 |-> io.universalIODirection.directionValueUniIOPin5,
                        pin_6 |-> io.universalIODirection.directionValueUniIOPin6,
                        pin_7 |-> io.universalIODirection.directionValueUniIOPin7,
                        pin_8 |-> io.universalIODirection.directionValueUniIOPin8],
                   input_values |->
                       [pin_5 |-> io.universalIOInputValue.logicalValueUniIOPin5,
                        pin_6 |-> io.universalIOInputValue.logicalValueUniIOPin6,
                        pin_7 |-> io.universalIOInputValue.logicalValueUniIOPin7,
                        pin_8 |-> io.universalIOInputValue.logicalValueUniIOPin8],
                   output_values |->
                       [pin_5 |-> io.universalIOOutputValue.localOutput1Pin5,
                        pin_6 |-> io.universalIOOutputValue.localOutput2Pin6,
                        pin_7 |-> io.universalIOOutputValue.localOutput3Pin7,
                        pin_8 |-> io.universalIOOutputValue.localOutput4Pin8],
                   ossds_state |->
                       [OSSD1A |-> io.ossdsState.stateOSSD1A,
                        OSSD1B |-> io.ossdsState.stateOSSD1B,
                        OSSD2A |-> io.ossdsState.stateOSSD2A,
                        OSSD2B |-> io.ossdsState.stateOSSD2B],
                   ossds_dyn_count     |-> io.ossdsDynCount,
                   ossds_crc           |-> io.ossdsCRC,
                   ossds_io_status     |-> io.ossdsIOStatus,
                   dynamic_speed_a     |-> io.dynamicSpeedA,
                   dynamic_speed_b     |-> io.dynamicSpeedB,
                   dynamic_valid_flags |-> io.DynamicValidFlags] >>)

-----------------------------------------------------------------------------
(* publishROI, publishFieldInformation *)

\* The body of the loop of publishROI: one roi_msg from one roi.
RoiMsg(roi) ==
    [id             |-> roi.id,
     distance_value |-> roi.distanceValue,
     result_data    |-> [distance_safe  |-> roi.result.distanceSafe,
                         distance_valid |-> roi.result.distanceValid,
                         result_safe    |-> roi.result.resultSafe,
                         result_valid   |-> roi.result.resultValid,
                         task_result    |-> roi.result.taskResult],
     safety_data    |->
        [invalid_due_to_invalid_pixels    |-> roi.safetyRelatedData.tMembers.invalidDueToInvalidPixels,
         invalid_due_to_variance          |-> roi.safetyRelatedData.tMembers.invalidDueToVariance,
         invalid_due_to_overexposure      |-> roi.safetyRelatedData.tMembers.invalidDueToOverexposure,
         invalid_due_to_underexposure     |-> roi.safetyRelatedData.tMembers.invalidDueToUnderexposure,
         invalid_due_to_temporal_variance |-> roi.safetyRelatedData.tMembers.invalidDueToTemporalVariance,
         invalid_due_to_outside_of_measurement_range |->
             roi.safetyRelatedData.tMembers.invalidDueToOutsideOfMeasurementRange,
         invalid_due_to_retro_reflector_interference |->
             roi.safetyRelatedData.tMembers.invalidDueToRetroReflectorInterference,
         contamination_error |-> roi.safetyRelatedData.tMembers.contaminationError,
         quality_class       |-> roi.safetyRelatedData.tMembers.qualityClass,
         slot_active         |-> roi.safetyRelatedData.tMembers.slotActive]]

\* RoiLoop inserting each entry at the front of the list.
RECURSIVE RoiLoopFront(_, _, _)
RoiLoopFront(rois, roiData, i) ==
    IF i > Len(roiData)
    THEN rois
    ELSE RoiLoopFront(<<RoiMsg(roiData[i])>> \o rois, roiData, i + 1)

\* The range-for of publishROI from position i on: push_back appends.
RECURSIVE RoiLoop(_, _, _)
RoiLoop(rois, roiData, i) ==
    IF i > Len(roiData)
    THEN rois
    ELSE RoiLoop(Append(rois, RoiMsg(roiData[i])), roiData, i + 1)

publishROI(hdr, frame_data) ==
    Result("return",
           << [header |-> hdr, rois |-> RoiLoop(<<>>, frame_data.roiData, 1)] >>)

\* The body of the loop of publishFieldInformation.
FieldMsg(field) ==
    [field_id     |-> field.fieldID,
     field_set_id |-> field.fieldSetID,
     field_active |-> field.fieldActive,
     field_result |-> field.fieldResult,
     eval_method  |-> field.evalMethod]

RECURSIVE FieldLoop(_, _, _)
FieldLoop(fields, fieldInformation, i) ==
    IF i > Len(fieldInformation)
    THEN fields
    ELSE FieldLoop(Append(fields, FieldMsg(fieldInformation[i])), fieldInformation, i + 1)

publishFieldInformation(hdr, frame_data) ==
    Result("return",
           << [header |-> hdr,
               fields |-> FieldLoop(<<>>, frame_data.fieldInformation, 1)] >>)

-----------------------------------------------------------------------------
(* publish *)

\* HasSubscribers deciding on the count read in the previous call.
HasSubscribersRemembered(counts, ch) == subscribers[ch] > 0

\* The test "xxx_pub_.getNumSubscribers() > 0" on the count the transport
\* answers for that publisher in this call.
HasSubscribers(counts, ch) == counts[ch] > 0

\* A call that has not reached its first test yet.
CallStart ==
    [st |-> "run", published |-> NoMessages, invoked |-> {}, cloudBuf |-> NoCloudBuffer,
     copied |-> [ch \in ImageChannels |-> 0]]

\* One "if (count > 0) { publishXxx(header, frame_data); }" of publish().  r is
\* what the routine does when entered.  Once an exception or a termination
\* has left the call, the remaining statements are not executed.
Step(acc, ch, counts, r) ==
    IF acc.st # "run" THEN acc
    ELSE IF ~HasSubscribers(counts, ch) THEN acc
    ELSE [acc EXCEPT !.st        = IF r.outcome = "return" THEN "run" ELSE r.outcome,
                     !.published = [@ EXCEPT ![ch] = @ \o r.msgs],
                     !.invoked   = @ \cup {ch}]

\* As Step, for the point cloud: what became of cloud_msg->data is kept.
StepCloud(acc, ch, counts, r) ==
    IF acc.st = "run" /\ HasSubscribers(counts, ch)
    THEN [Step(acc, ch, counts, r) EXCEPT !.cloudBuf = r.buf]
    ELSE acc

\* As Step, for an image: the number of samples its memcpy transferred is kept.
StepImage(acc, ch, counts, r) ==
    IF acc.st = "run" /\ HasSubscribers(counts, ch)
    THEN [Step(acc, ch, counts, r) EXCEPT !.copied = [@ EXCEPT ![ch] = r.copied]]
    ELSE acc

\* The undefined outcomes a call draws: for each image channel the value its
\* unwritten samples hold, for each overrunning copy what the build makes of it.
OverflowOf(overflow, ch) == IF ch \in DOMAIN overflow THEN overflow[ch] ELSE "silent"

publish(hdr, frame_data, counts, fill, overflow) ==
    LET a0  == CallStart
        a1  == Step(a0, "camera_info", counts, publishCameraInfo(hdr, frame_data))
        a2  == StepCloud(a1, "points", counts,
                         publishPointCloud(hdr, frame_data, OverflowOf(overflow, "points")))
        a3  == StepImage(a2, "depth", counts,
                         publishDepthImage(hdr, frame_data, fill["depth"],
                                           OverflowOf(overflow, "depth")))
        a4  == StepImage(a3, "intensity", counts,
                         publishIntensityImage(hdr, frame_data, fill["intensity"],
                                               OverflowOf(overflow, "intensity")))
        a5  == StepImage(a4, "state", counts,
                         publishStateMap(hdr, frame_data, fill["state"],
                                         OverflowOf(overflow, "state")))
        a6  == Step(a5, "imu_data", counts, publishIMUData(hdr, frame_data))
        a7  == Step(a6, "device_status", counts, publishDeviceStatus(hdr, frame_data))
        a8  == Step(a7, "camera_io", counts, publishIOs(hdr, frame_data))
        a9  == Step(a8, "region_of_interest", counts, publishROI(hdr, frame_data))
        a10 == Step(a9, "fields", counts, publishFieldInformation(hdr, frame_data))
    IN  a10

-----------------------------------------------------------------------------
(* The inputs of publish: headers, frames, subscriber counts *)

Headers ==
    {[seq |-> 0, stamp |-> 10, frame_id |-> "camera"],
     [seq |-> 0, stamp |-> 20, frame_id |-> "camera"]}

\* All sequences over S of length at most n.
SeqsUpTo(S, n) == UNION {[1..k -> S] : k \in 0..n}

\* The sequence of length n that holds v everywhere.
Fill(v, n) == [i \in 1..n |-> v]

Heights == 1..MaxHeight
Widths == 1..MaxWidth

\* 32-bit patterns of the coordinates, 16-bit and 8-bit samples.  The values
\* have pairwise different bytes, so that a byte put in the wrong place shows.
PointValues ==
    {[x |-> 67305985, y |-> 134678021, z |-> 202050057],
     [x |-> 2139095040, y |-> 0, z |-> 1065353216]}
IntensityValues == {3597, 65280}
DistanceValues == {1000, 40000}
StateValues == {5, 255}

\* What an uninitialised 16-bit / 8-bit sample may hold.
Uninit16 == {0, 43690}
Uninit8 == {0, 170}

CameraParameterNames == {"k1", "k2", "p1", "p2", "k3", "fx", "fy", "cx", "cy"}

DefaultCamera ==
    [k1 |-> 11, k2 |-> 12, p1 |-> 13, p2 |-> 14, k3 |-> 15,
     fx |-> 16, fy |-> 17, cx |-> 18, cy |-> 19]

AllCameras == [CameraParameterNames -> {2, 3}]

DefaultIMU ==
    [angularVelocity |-> [X |-> 1, Y |-> 2, Z |-> 3],
     acceleration    |-> [X |-> 4, Y |-> 5, Z |-> 6],
     orientation     |-> [X |-> 7, Y |-> 8, Z |-> 9, W |-> 10]]

DefaultDeviceStatusData ==
    [generalStatus |->
        [applicationError |-> 0, contaminationError |-> 1, contaminationWarning |-> 0,
         deadZoneDetection |-> 1, deviceError |-> 0, temperatureWarning |-> 1,
         runModeActive |-> 1, waitForCluster |-> 0, waitForInput |-> 1],
     COPNonSaftyRelated |-> 21, COPSaftyRelated |-> 22, COPResetRequired |-> 23,
     activeMonitoringCase |->
        [currentCaseNumberMonitoringCase1 |-> 31, currentCaseNumberMonitoringCase2 |-> 32,
         currentCaseNumberMonitoringCase3 |-> 33, currentCaseNumberMonitoringCase4 |-> 34],
     contaminationLevel |-> 2]

DefaultLocalIOData ==
    [universalIOConfigured |->
        [configuredUniIOPin5 |-> 1, configuredUniIOPin6 |-> 0,
         configuredUniIOPin7 |-> 1, configuredUniIOPin8 |-> 1],
     universalIODirection |->
        [directionValueUniIOPin5 |-> 0, directionValueUniIOPin6 |-> 1,
         directionValueUniIOPin7 |-> 1, directionValueUniIOPin8 |-> 0],
     universalIOInputValue |->
        [logicalValueUniIOPin5 |-> 1, logicalValueUniIOPin6 |-> 1,
         logicalValueUniIOPin7 |-> 0, logicalValueUniIOPin8 |-> 0],
     universalIOOutputValue |->
        [localOutput1Pin5 |-> 0, localOutput2Pin6 |-> 0,
         localOutput3Pin7 |-> 1, localOutput4Pin8 |-> 0],
     ossdsState |->
        [stateOSSD1A |-> 1, stateOSSD1B |-> 0, stateOSSD2A |-> 0, stateOSSD2B |-> 1],
     ossdsDynCount |-> 41, ossdsCRC |-> 42, ossdsIOStatus |-> 43,
     dynamicSpeedA |-> 44, dynamicSpeedB |-> 45, DynamicValidFlags |-> 46]

RoiValue(n) ==
    [id |-> n, distanceValue |-> 100 + n,
     result |-> [distanceSafe |-> n % 2, distanceValid |-> 1, resultSafe |-> 2,
                 resultValid |-> 0, taskResult |-> 3],
     safetyRelatedData |->
        [tMembers |->
            [invalidDueToInvalidPixels |-> 1, invalidDueToVariance |-> 0,
             invalidDueToOverexposure |-> n % 2, invalidDueToUnderexposure |-> 0,
             invalidDueToTemporalVariance |-> 1,
             invalidDueToOutsideOfMeasurementRange |-> 0,
             invalidDueToRetroReflectorInterference |-> 1,
             contaminationError |-> 0, qualityClass |-> n, slotActive |-> 1]]]

RoiValues == {RoiValue(1), RoiValue(2)}

FieldValue(n) ==
    [fieldID |-> n, fieldSetID |-> 10 + n, fieldActive |-> n % 2,
     fieldResult |-> 20 + n, evalMethod |-> 30 + n]

FieldValues == {FieldValue(1), FieldValue(2)}

\* A frame of the given size whose maps and generated points have exactly
\* height * width entries.
FullFrame(h, w) ==
    [height           |-> h,
     width            |-> w,
     cam              |-> DefaultCamera,
     distanceMap      |-> Fill(1000, h * w),
     intensityMap     |-> Fill(3597, h * w),
     stateMap         |-> Fill(5, h * w),
     generate         |-> "ok",
     points           |-> Fill([x |-> 67305985, y |-> 134678021, z |-> 202050057], h * w),
     imu              |-> DefaultIMU,
     deviceStatus     |-> 1,
     deviceStatusData |-> DefaultDeviceStatusData,
     localIOData      |-> DefaultLocalIOData,
     roiData          |-> <<RoiValue(1)>>,
     fieldInformation |-> <<FieldValue(1)>>]

\* Per channel, the count getNumSubscribers() answers: every combination of
\* no subscriber / one subscriber over the channels of S, none elsewhere.
CountsOn(S) ==
    {[ch \in ChannelSet |-> IF ch \in S THEN c[ch] ELSE 0] : c \in [S -> {0, 1}]}

AllCounts == CountsOn(ChannelSet)

\* Frames for runs of several calls: complete frames, and the same frames
\* with an empty distance map or an empty state map.
TwiceFrames ==
    {FullFrame(h, 1) : h \in Heights}
    \cup {[FullFrame(h, 1) EXCEPT !.distanceMap = <<>>] : h \in Heights}
    \cup {[FullFrame(h, 1) EXCEPT !.stateMap = <<>>] : h \in Heights}

\* Frames whose maps and generated points have any length up to MaxLen, and
\* on which the point generation succeeds or throws.
CallFrames ==
    {[FullFrame(h, 1) EXCEPT !.distanceMap  = Fill(1000, m),
                             !.intensityMap = Fill(3597, m),
                             !.stateMap     = Fill(5, m),
                             !.points       = Fill([x |-> 1, y |-> 2, z |-> 3], n),
                             !.generate     = g] :
        h \in Heights, m \in 0..MaxLen, n \in 0..MaxLen, g \in {"ok", "throw"}}

\* Frames for the point cloud: any points and intensity samples.
CloudFrames ==
    {[FullFrame(h, w) EXCEPT !.points = pts, !.intensityMap = ints] :
        h \in Heights, w \in Widths,
        pts \in SeqsUpTo(PointValues, MaxLen), ints \in SeqsUpTo(IntensityValues, MaxLen)}

\* Frames for the raster images: any distance, intensity and state map.
ImageFrames ==
    {[FullFrame(h, w) EXCEPT !.distanceMap = d, !.intensityMap = i, !.stateMap = s] :
        h \in Heights, w \in Widths,
        d \in SeqsUpTo(DistanceValues, MaxLen), i \in SeqsUpTo(IntensityValues, MaxLen),
        s \in SeqsUpTo(StateValues, MaxLen)}

\* Frames for the calibration record: any camera parameters.
CalibFrames ==
    {[FullFrame(h, w) EXCEPT !.cam = c] : h \in Heights, w \in Widths, c \in AllCameras}

\* Frames for the list channels: any region-of-interest and field list.
ListFrames ==
    {[FullFrame(1, 1) EXCEPT !.roiData = r, !.fieldInformation = f] :
        r \in SeqsUpTo(RoiValues, MaxLen), f \in SeqsUpTo(FieldValues, MaxLen)}

-----------------------------------------------------------------------------
(* State machine *)

\* The state after the constructor: every publisher advertised, no call yet.
Init ==
    /\ status = "constructed"
    /\ header = [seq |-> 0, stamp |-> 0, frame_id |-> ""]
    /\ frame = FullFrame(1, 1)
    /\ subscribers = [ch \in ChannelSet |-> 0]
    /\ invoked = {}
    /\ published = NoMessages
    /\ cloudBuf = NoCloudBuffer
    /\ copied = [ch \in ImageChannels |-> 0]

\* The values an image's unwritten samples may hold in a call.
FillChoices(frame_data, vec, uninit) ==
    IF Unwritten(frame_data, vec) = {} THEN {0} ELSE uninit

\* The copies of a call on this frame that overrun their destination.
OverflowSites(frame_data) ==
    {ch \in {"points"} \cup ImageChannels :
        LET size == frame_data.height * frame_data.width
        IN  \/ ch = "points" /\ frame_data.generate = "ok"
                             /\ Len(frame_data.points) = Len(frame_data.intensityMap)
                             /\ Len(frame_data.points) > size
            \/ ch = "depth" /\ Len(frame_data.distanceMap) > size
            \/ ch = "intensity" /\ Len(frame_data.intensityMap) > size
            \/ ch = "state" /\ Len(frame_data.stateMap) > size}

\* One call publish(hdr, frame_data) in which the transport answers counts.
Call(hdr, frame_data, counts) ==
    \E fd \in FillChoices(frame_data, frame_data.distanceMap, Uninit16),
       fi \in FillChoices(frame_data, frame_data.intensityMap, Uninit16),
       fs \in FillChoices(frame_data, frame_data.stateMap, Uninit8),
       overflow \in [OverflowSites(frame_data) -> {"silent", "abort"}] :
        \E a \in {publish(hdr, frame_data, counts,
                          [depth |-> fd, intensity |-> fi, state |-> fs], overflow)} :
            /\ status' = CASE a.st = "run"   -> "returned"
                           [] a.st = "throw" -> "threw"
                           [] a.st = "crash" -> "crashed"
            /\ header' = hdr
            /\ frame' = frame_data
            /\ subscribers' = counts
            /\ invoked' = a.invoked
            /\ published' = a.published
            /\ cloudBuf' = a.cloudBuf
            /\ copied' = a.copied

\* The caller calls publish with a header of H and a frame of F while the
\* transport answers counts of Q.  A terminated process makes no more calls.
Publish(H, F, Q) ==
    /\ status # "crashed"
    /\ \E hdr \in H, frame_data \in F, counts \in Q : Call(hdr, frame_data, counts)

\* The first call after construction.
FirstPublish(H, F, Q) ==
    /\ status = "constructed"
    /\ \E hdr \in H, frame_data \in F, counts \in Q : Call(hdr, frame_data, counts)

\* Any sequence of calls on a complete frame, the subscribed channels
\* changing in any way from call to call.
Next == Publish({[seq |-> 0, stamp |-> 10, frame_id |-> "camera"]}, {FullFrame(1, 1)},
                AllCounts)
Spec == Init /\ [][Next]_vars

\* Any sequence of calls on complete and incomplete frames.
NextTwice ==
    Publish(Headers, TwiceFrames, CountsOn({"points", "depth", "state", "fields"}))
SpecTwice == Init /\ [][NextTwice]_vars

\* One call, every combination of subscribed channels, frames of any lengths.
NextCall == FirstPublish(Headers, CallFrames, AllCounts)
SpecCall == Init /\ [][NextCall]_vars

\* One call of the point-cloud routine on any points and intensity samples.
NextCloud == FirstPublish(Headers, CloudFrames, CountsOn({"points", "intensity"}))
SpecCloud == Init /\ [][NextCloud]_vars

\* One call of the image routines on any maps.
NextImage == FirstPublish(Headers, ImageFrames, CountsOn({"depth", "intensity", "state"}))
SpecImage == Init /\ [][NextImage]_vars

\* One call of the calibration routine on any camera parameters.
NextCalib == FirstPublish(Headers, CalibFrames, CountsOn({"camera_info"}))
SpecCalib == Init /\ [][NextCalib]_vars

\* One call of the list routines on any lists.
NextLists == FirstPublish(Headers, ListFrames, CountsOn({"region_of_interest", "fields"}))
SpecLists == Init /\ [][NextLists]_vars

-----------------------------------------------------------------------------
(* Properties *)

\* The value of the 4 (2) bytes of d from position k on, read as the host reads
\* an unsigned little-endian number.
Word32(d, k) == d[k] + 256 * d[k + 1] + 65536 * d[k + 2] + 16777216 * d[k + 3]
Word16(d, k) == d[k] + 256 * d[k + 1]

Pixels == frame.height * frame.width

\* C1: a channel whose subscriber count is 0 when publish queries it in a call
\* has neither its transcode routine invoked nor a record published in that
\* call, whatever the counts of the earlier calls were.
C1_NoSubscriberNoWork ==
    \A ch \in ChannelSet :
        subscribers[ch] = 0 => (ch \notin invoked /\ published[ch] = <<>>)

\* A call in which some channels have no subscriber and the others publish.
C1_Witness ==
    /\ status = "returned"
    /\ subscribers["points"] = 0 /\ subscribers["fields"] = 0
    /\ subscribers["camera_info"] > 0 /\ published["camera_info"] # <<>>
    /\ subscribers["state"] > 0 /\ published["state"] # <<>>

\* C2: when the number of generated points differs from the number of
\* intensity samples, the point-cloud channel publishes nothing and every
\* other channel with a subscriber publishes exactly one record in that call.
C2_MismatchSkipsOnlyPointCloud ==
    ( /\ "points" \in invoked
      /\ frame.generate = "ok"
      /\ Len(frame.points) # Len(frame.intensityMap) )
    => /\ published["points"] = <<>>
       /\ \A ch \in ChannelSet \ {"points"} :
            subscribers[ch] > 0 => Len(published[ch]) = 1

\* C3: when the points and the intensity samples both number height * width,
\* the point-cloud record has a data buffer of height * width * 14 bytes,
\* point_step 14, field offsets x = 0, y = 4, z = 8, intensity = 12, and for
\* every i the bytes [i*14, i*14+12) hold point i's coordinates and the bytes
\* [i*14+12, i*14+14) hold intensity sample i.
C3_PointCloudLayout ==
    ( /\ published["points"] # <<>>
      /\ Len(frame.points) = Pixels
      /\ Len(frame.intensityMap) = Pixels )
    => LET msg == published["points"][1]
       IN  /\ Len(published["points"]) = 1
           /\ Len(msg.data) = Pixels * 14
           /\ msg.point_step = 14
           /\ Len(msg.fields) = 4
           /\ msg.fields[1].name = "x" /\ msg.fields[1].offset = 0
           /\ msg.fields[2].name = "y" /\ msg.fields[2].offset = 4
           /\ msg.fields[3].name = "z" /\ msg.fields[3].offset = 8
           /\ msg.fields[4].name = "intensity" /\ msg.fields[4].offset = 12
           /\ \A i \in 0..(Pixels - 1) :
                /\ Word32(msg.data, i * 14 + 1) = frame.points[i + 1].x
                /\ Word32(msg.data, i * 14 + 5) = frame.points[i + 1].y
                /\ Word32(msg.data, i * 14 + 9) = frame.points[i + 1].z
                /\ Word16(msg.data, i * 14 + 13) = frame.intensityMap[i + 1]

\* A point cloud of two different points with two different intensities.
C3_Witness ==
    /\ status = "returned"
    /\ published["points"] # <<>>
    /\ Pixels = 2 /\ Len(frame.points) = 2 /\ Len(frame.intensityMap) = 2
    /\ frame.points[1] # frame.points[2]
    /\ frame.intensityMap[1] # frame.intensityMap[2]

\* C4: when the point generation fails (throws) inside publish, only the
\* point-cloud channel produces nothing: every channel that publish evaluates
\* after the point-cloud channel and that has a subscriber is still published
\* in that call.  (What the caller does with the failure is outside publish.)
C4_GenerationFailureSkipsOnlyPointCloud ==
    ("points" \in invoked /\ frame.generate = "throw")
    => /\ published["points"] = <<>>
       /\ \A i \in (ChannelIndex("points") + 1)..Len(Channels) :
            subscribers[Channels[i]] > 0 => Len(published[Channels[i]]) = 1

\* C5: every record published in a call carries the header argument of
\* that call.
C5_SameHeaderOnEveryRecord ==
    \A ch \in ChannelSet :
        \A i \in 1..Len(published[ch]) : published[ch][i].header = header

\* A call that published on all ten channels.
C5_Witness ==
    /\ status = "returned"
    /\ header.stamp = 20
    /\ \A ch \in ChannelSet : Len(published[ch]) = 1

\* Whether the output entry holds the values of the input entry.
IsCopyOfRoi(msg, roi) ==
    /\ msg.id = roi.id
    /\ msg.distance_value = roi.distanceValue
    /\ msg.result_data.distance_safe = roi.result.distanceSafe
    /\ msg.result_data.distance_valid = roi.result.distanceValid
    /\ msg.result_data.result_safe = roi.result.resultSafe
    /\ msg.result_data.result_valid = roi.result.resultValid
    /\ msg.result_data.task_result = roi.result.taskResult
    /\ LET out == msg.safety_data
           in  == roi.safetyRelatedData.tMembers
       IN  /\ out.invalid_due_to_invalid_pixels = in.invalidDueToInvalidPixels
           /\ out.invalid_due_to_variance = in.invalidDueToVariance
           /\ out.invalid_due_to_overexposure = in.invalidDueToOverexposure
           /\ out.invalid_due_to_underexposure = in.invalidDueToUnderexposure
           /\ out.invalid_due_to_temporal_variance = in.invalidDueToTemporalVariance
           /\ out.invalid_due_to_outside_of_measurement_range
                = in.invalidDueToOutsideOfMeasurementRange
           /\ out.invalid_due_to_retro_reflector_interference
                = in.invalidDueToRetroReflectorInterference
           /\ out.contamination_error = in.contaminationError
           /\ out.quality_class = in.qualityClass
           /\ out.slot_active = in.slotActive

IsCopyOfField(msg, field) ==
    /\ msg.field_id = field.fieldID
    /\ msg.field_set_id = field.fieldSetID
    /\ msg.field_active = field.fieldActive
    /\ msg.field_result = field.fieldResult
    /\ msg.eval_method = field.evalMethod

\* C6: the region-of-interest record and the field-evaluation record each
\* hold as many entries as the frame's list, and output entry i is the copy
\* of input entry i.
C6_ListsCopiedInOrder ==
    /\ published["region_of_interest"] # <<>> =>
         LET rois == published["region_of_interest"][1].rois
         IN  /\ Len(rois) = Len(frame.roiData)
             /\ \A i \in 1..Len(rois) : IsCopyOfRoi(rois[i], frame.roiData[i])
    /\ published["fields"] # <<>> =>
         LET fields == published["fields"][1].fields
         IN  /\ Len(fields) = Len(frame.fieldInformation)
             /\ \A i \in 1..Len(fields) : IsCopyOfField(fields[i], frame.fieldInformation[i])

\* Both lists published from two different entries each.
C6_Witness ==
    /\ published["region_of_interest"] # <<>>
    /\ published["fields"] # <<>>
    /\ Len(frame.roiData) = 2 /\ frame.roiData[1] # frame.roiData[2]
    /\ Len(frame.fieldInformation) = 2
    /\ frame.fieldInformation[1] # frame.fieldInformation[2]

\* C7: the calibration record's distortion vector has length 5 and equals
\* [k1, k2, p1, p2, k3]; positions 0, 2, 4, 5, 8 of its 9-slot projection
\* layout equal fx, cx, fy, cy, 1 and positions 1, 3, 6, 7 equal 0.
C7_CalibrationLayout ==
    published["camera_info"] # <<>> =>
        LET msg == published["camera_info"][1]
            cam == frame.cam
        IN  /\ msg.D = <<cam.k1, cam.k2, cam.p1, cam.p2, cam.k3>>
            /\ Len(msg.D) = 5
            /\ DOMAIN msg.K = 0..8
            /\ msg.K[0] = cam.fx /\ msg.K[2] = cam.cx
            /\ msg.K[4] = cam.fy /\ msg.K[5] = cam.cy /\ msg.K[8] = 1
            /\ \A i \in {1, 3, 6, 7} : msg.K[i] = 0

\* A calibration record published from parameters that differ between
\* neighbouring slots.
C7_Witness ==
    /\ published["camera_info"] # <<>>
    /\ frame.cam.fx # frame.cam.cx /\ frame.cam.cx # frame.cam.fy
    /\ frame.cam.fy # frame.cam.cy
    /\ frame.cam.k1 # frame.cam.k2 /\ frame.cam.p2 # frame.cam.k3

\* C8: a second call of publish with the same header, the same frame and the
\* same subscriber counts publishes on every channel what the first call
\* published.
C8_RepeatedCallSameRecords ==
    [][ ( /\ status \in {"returned", "threw"}
          /\ header' = header
          /\ frame' = frame
          /\ subscribers' = subscribers )
        => published' = published ]_vars

\* C9: each image published on the depth, intensity and state channels has
\* height * width samples, sample i equals sample i of its source map, and
\* the copy transfers exactly height * width samples whatever the length of
\* the source map.
SourceMap(ch) ==
    CASE ch = "depth"     -> frame.distanceMap
      [] ch = "intensity" -> frame.intensityMap
      [] ch = "state"     -> frame.stateMap

C9_ImageHoldsSourceSamples ==
    \A ch \in ImageChannels :
        ch \in invoked =>
            /\ copied[ch] = Pixels
            /\ Len(published[ch]) = 1
            /\ Len(published[ch][1].data) = Pixels
            /\ \A i \in 1..Pixels :
                 /\ i <= Len(SourceMap(ch))
                 /\ published[ch][1].data[i] = SourceMap(ch)[i]

\* C10: every write of the packing loop stays inside the data buffer sized
\* from the frame's height and width.
C10_PackingStaysInBuffer ==
    \A w \in cloudBuf.writes : w[1] + w[2] <= Len(cloudBuf.data)

=============================================================================
